---- MODULE Spec2Model ----
(***************************************************************************)
(* Writing Assistant: the rule-based text analyzer (get_sentences,         *)
(* get_words, analyze_text) and the page script that calls it when the     *)
(* "Analyze My Writing" button is pressed.                                 *)
(*                                                                         *)
(* A Python str is modelled as a sequence of one-character strings, so     *)
(* that substring containment, word tokens, word boundaries and letter     *)
(* case are all computed character by character as the regular            *)
(* expressions of the source compute them.                                 *)
(***************************************************************************)
EXTENDS Integers, Sequences, FiniteSets, TLC

VARIABLES text, edits, shown, results, issues

vars == <<text, edits, shown, results, issues>>

(***************************************************************************)
(* Characters                                                              *)
(***************************************************************************)
UpperCase ==
  <<"A","B","C","D","E","F","G","H","I","J","K","L","M",
    "N","O","P","Q","R","S","T","U","V","W","X","Y","Z">>

LowerCase ==
  <<"a","b","c","d","e","f","g","h","i","j","k","l","m",
    "n","o","p","q","r","s","t","u","v","w","x","y","z">>

Digits == {"0","1","2","3","4","5","6","7","8","9"}

Whitespace == {" ", "\n", "\t"}

Terminators == {".", "!", "?"}

Letters == {UpperCase[i] : i \in 1..26} \cup {LowerCase[i] : i \in 1..26}

Chars == Letters \cup Digits \cup Whitespace \cup Terminators \cup {",", "_"}

\* str.lower() on one character
LowerOf ==
  [c \in Chars |->
     IF \E i \in 1..26 : UpperCase[i] = c
     THEN LowerCase[CHOOSE i \in 1..26 : UpperCase[i] = c]
     ELSE c]

\* str.lower()
lower(s) == [i \in 1..Len(s) |-> LowerOf[s[i]]]

\* [a-zA-Z]
IsAlpha(c) == c \in Letters

\* \w
IsWordChar(c) == c \in Letters \cup Digits \cup {"_"}

\* \s
IsSpace(c) == c \in Whitespace

\* \b at the gap before position i of s (i in 1..Len(s)+1)
boundary(s, i) ==
  LET before == i > 1 /\ IsWordChar(s[i-1])
      after  == i <= Len(s) /\ IsWordChar(s[i])
  IN before # after

\* p occurs in s starting at position i
matches_at(p, s, i) ==
  /\ i + Len(p) - 1 <= Len(s)
  /\ \A j \in 1..Len(p) : s[i+j-1] = p[j]

\* Python's "p in s"
contains(p, s) == \E i \in 1..(Len(s) - Len(p) + 1) : matches_at(p, s, i)

\* str.strip()
strip(s) ==
  IF \A i \in 1..Len(s) : IsSpace(s[i]) THEN <<>>
  ELSE LET first == CHOOSE i \in 1..Len(s) :
                      ~IsSpace(s[i]) /\ \A k \in 1..(i-1) : IsSpace(s[k])
           last  == CHOOSE i \in 1..Len(s) :
                      ~IsSpace(s[i]) /\ \A k \in (i+1)..Len(s) : IsSpace(s[k])
       IN SubSeq(s, first, last)

(***************************************************************************)
(* Analysis patterns                                                       *)
(***************************************************************************)
WORDY_PHRASES ==
  <<
    <<<<"i","n"," ","o","r","d","e","r"," ","t","o">>,
      <<"t","o">>>>,
    <<<<"d","u","e"," ","t","o"," ","t","h","e"," ","f","a","c","t"," ","t","h","a","t">>,
      <<"b","e","c","a","u","s","e">>>>,
    <<<<"a","t"," ","t","h","i","s"," ","p","o","i","n","t"," ","i","n"," ","t","i","m","e">>,
      <<"n","o","w">>>>,
    <<<<"i","n"," ","t","h","e"," ","e","v","e","n","t"," ","t","h","a","t">>,
      <<"i","f">>>>,
    <<<<"f","o","r"," ","t","h","e"," ","p","u","r","p","o","s","e"," ","o","f">>,
      <<"t","o">>>>,
    <<<<"a","t"," ","t","h","e"," ","p","r","e","s","e","n","t"," ","t","i","m","e">>,
      <<"n","o","w">>>>,
    <<<<"i","n"," ","t","h","e"," ","n","e","a","r"," ","f","u","t","u","r","e">>,
      <<"s","o","o","n">>>>,
    <<<<"h","a","s"," ","t","h","e"," ","a","b","i","l","i","t","y"," ","t","o">>,
      <<"c","a","n">>>>,
    <<<<"i","s"," ","a","b","l","e"," ","t","o">>,
      <<"c","a","n">>>>,
    <<<<"a"," ","l","a","r","g","e"," ","n","u","m","b","e","r"," ","o","f">>,
      <<"m","a","n","y">>>>,
    <<<<"t","h","e"," ","m","a","j","o","r","i","t","y"," ","o","f">>,
      <<"m","o","s","t">>>>,
    <<<<"i","n"," ","c","l","o","s","e"," ","p","r","o","x","i","m","i","t","y"," ","t","o">>,
      <<"n","e","a","r">>>>,
    <<<<"t","a","k","e"," ","i","n","t","o"," ","c","o","n","s","i","d","e","r","a","t","i","o","n">>,
      <<"c","o","n","s","i","d","e","r">>>>,
    <<<<"m","a","k","e"," ","a"," ","d","e","c","i","s","i","o","n">>,
      <<"d","e","c","i","d","e">>>>
  >>

COMPLEX_WORDS ==
  <<
    <<<<"u","t","i","l","i","z","e">>,
      <<"u","s","e">>>>,
    <<<<"i","m","p","l","e","m","e","n","t">>,
      <<"s","t","a","r","t">>>>,
    <<<<"f","a","c","i","l","i","t","a","t","e">>,
      <<"h","e","l","p">>>>,
    <<<<"l","e","v","e","r","a","g","e">>,
      <<"u","s","e">>>>,
    <<<<"o","p","t","i","m","i","z","e">>,
      <<"i","m","p","r","o","v","e">>>>,
    <<<<"m","e","t","h","o","d","o","l","o","g","y">>,
      <<"m","e","t","h","o","d">>>>,
    <<<<"f","u","n","c","t","i","o","n","a","l","i","t","y">>,
      <<"f","e","a","t","u","r","e">>>>,
    <<<<"s","u","b","s","e","q","u","e","n","t","l","y">>,
      <<"t","h","e","n">>>>,
    <<<<"a","p","p","r","o","x","i","m","a","t","e","l","y">>,
      <<"a","b","o","u","t">>>>,
    <<<<"c","o","m","m","e","n","c","e">>,
      <<"b","e","g","i","n">>>>,
    <<<<"t","e","r","m","i","n","a","t","e">>,
      <<"e","n","d">>>>,
    <<<<"e","n","d","e","a","v","o","r">>,
      <<"t","r","y">>>>,
    <<<<"s","u","f","f","i","c","i","e","n","t">>,
      <<"e","n","o","u","g","h">>>>,
    <<<<"n","u","m","e","r","o","u","s">>,
      <<"m","a","n","y">>>>
  >>

WEAK_WORDS ==
  <<
    <<"v","e","r","y">>,
    <<"r","e","a","l","l","y">>,
    <<"q","u","i","t","e">>,
    <<"r","a","t","h","e","r">>,
    <<"s","o","m","e","w","h","a","t">>,
    <<"b","a","s","i","c","a","l","l","y">>,
    <<"a","c","t","u","a","l","l","y">>,
    <<"l","i","t","e","r","a","l","l","y">>,
    <<"j","u","s","t">>
  >>

HEDGING_WORDS ==
  <<
    <<"m","a","y","b","e">>,
    <<"p","e","r","h","a","p","s">>,
    <<"p","o","s","s","i","b","l","y">>,
    <<"m","i","g","h","t">>,
    <<"c","o","u","l","d"," ","b","e">>,
    <<"s","e","e","m","s"," ","l","i","k","e">>,
    <<"s","o","r","t"," ","o","f">>,
    <<"k","i","n","d"," ","o","f">>,
    <<"I"," ","t","h","i","n","k">>,
    <<"I"," ","b","e","l","i","e","v","e">>
  >>

PASSIVE_AUX ==
  << <<"i","s">>, <<"a","r","e">>, <<"w","a","s">>, <<"w","e","r","e">>,
     <<"b","e","e","n">>, <<"b","e","i","n","g">> >>

(***************************************************************************)
(* Helper functions                                                        *)
(***************************************************************************)
Min(S) == CHOOSE x \in S : \A y \in S : x <= y

Max2(a, b) == IF a >= b THEN a ELSE b

\* first position >= i of s that is not whitespace (Len(s)+1 if none)
skip_space(s, i) ==
  Min({k \in i..(Len(s)+1) : k = Len(s)+1 \/ ~IsSpace(s[k])})

\* last position of the run of \w characters that starts at i
run_end(s, i) ==
  Min({k \in i..Len(s) : k = Len(s) \/ ~IsWordChar(s[k+1])})

\* re.split(r'(?<=[.!?])\s+', t)
RECURSIVE re_split(_)
re_split(t) ==
  LET cuts == {i \in 2..Len(t) : IsSpace(t[i]) /\ t[i-1] \in Terminators}
  IN IF cuts = {} THEN <<t>>
     ELSE LET i == Min(cuts)
              j == skip_space(t, i)
          IN <<SubSeq(t, 1, i-1)>> \o re_split(SubSeq(t, j, Len(t)))

\* [s.strip() for s in pieces if s.strip()]
RECURSIVE strip_nonempty(_)
strip_nonempty(pieces) ==
  IF pieces = <<>> THEN <<>>
  ELSE LET s == strip(Head(pieces))
       IN (IF s = <<>> THEN <<>> ELSE <<s>>) \o strip_nonempty(Tail(pieces))

get_sentences(t) == strip_nonempty(re_split(strip(t)))

\* re.findall(r'\b[a-zA-Z]+\b', l) from position i on: every maximal run of
\* \w characters that consists of ASCII letters only
RECURSIVE findall_words(_,_)
findall_words(l, i) ==
  LET starts == {k \in i..Len(l) : IsWordChar(l[k])}
  IN IF starts = {} THEN <<>>
     ELSE LET b == Min(starts)
              e == run_end(l, b)
              w == SubSeq(l, b, e)
          IN (IF \A k \in b..e : IsAlpha(l[k]) THEN <<w>> ELSE <<>>)
             \o findall_words(l, e + 1)

get_words(t) == findall_words(lower(t), 1)

\* rounding with a tie away from zero (round of Python 2)
py_round_half_up(num, den) ==
  LET q == num \div den
      r == num % den
  IN IF 2 * r < den THEN q ELSE q + 1

\* round(num / den) of Python 3: to nearest, a tie to the even integer
py_round(num, den) ==
  LET q == num \div den
      r == num % den
  IN IF 2 * r < den THEN q
     ELSE IF 2 * r > den THEN q + 1
     ELSE IF q % 2 = 0 THEN q ELSE q + 1

\* re.search(r'\b(is|are|was|were|been|being)\s+\w+<ending>\b', s, re.IGNORECASE)
\* for a two-letter ending
search_aux_participle(s, endings) ==
  LET l == lower(s)
  IN \E i \in 1..Len(s) :
       /\ boundary(s, i)
       /\ \E a \in 1..Len(PASSIVE_AUX) :
            /\ matches_at(PASSIVE_AUX[a], l, i)
            /\ LET p == i + Len(PASSIVE_AUX[a])
               IN /\ p <= Len(s)
                  /\ IsSpace(s[p])
                  /\ LET q == skip_space(s, p)
                     IN /\ q <= Len(s)
                        /\ IsWordChar(s[q])
                        /\ LET e == run_end(s, q)
                           IN /\ e - q + 1 >= 3
                              /\ <<l[e-1], l[e]>> \in endings

\* the pattern with \w+(ed|en)\b, which would take irregular participles
passive_search_en(s) == search_aux_participle(s, {<<"e","d">>, <<"e","n">>})

\* re.search(r'\b(is|are|was|were|been|being)\s+\w+ed\b', s, re.IGNORECASE)
passive_search(s) == search_aux_participle(s, {<<"e","d">>})

\* re.sub(pat, rep, s, flags=re.IGNORECASE) from position i on; pat is a
\* literal, anchored by \b on both sides when anchored is TRUE
RECURSIVE re_sub_from(_,_,_,_,_)
re_sub_from(pat, rep, s, anchored, i) ==
  LET l == lower(s)
      hits == {k \in i..(Len(s) - Len(pat) + 1) :
                 /\ matches_at(lower(pat), l, k)
                 /\ anchored => (boundary(s, k) /\ boundary(s, k + Len(pat)))}
  IN IF hits = {} THEN SubSeq(s, i, Len(s))
     ELSE LET k == Min(hits)
          IN SubSeq(s, i, k-1) \o rep \o re_sub_from(pat, rep, s, anchored, k + Len(pat))

re_sub(pat, rep, s, anchored) == re_sub_from(pat, rep, s, anchored, 1)

(***************************************************************************)
(* analyze_text: the six detection passes                                  *)
(***************************************************************************)
\* Passive voice: stops once the list holds two issues
RECURSIVE passive_voice_pass(_,_,_)
passive_voice_pass(sentences, k, acc) ==
  IF k > Len(sentences) THEN acc
  ELSE IF passive_search(sentences[k])
       THEN LET acc2 == Append(acc, [type |-> "passive_voice",
                                     category |-> "Clarity",
                                     issue |-> <<"Passive voice detected">>,
                                     original |-> sentences[k]])
            IN IF Len(acc2) >= 2 THEN acc2
               ELSE passive_voice_pass(sentences, k + 1, acc2)
       ELSE passive_voice_pass(sentences, k + 1, acc)

\* Long sentences
RECURSIVE long_sentence_pass(_,_)
long_sentence_pass(sentences, k) ==
  IF k > Len(sentences) THEN <<>>
  ELSE LET word_count == Len(get_words(sentences[k]))
       IN (IF word_count > 30
           THEN << [type |-> "long_sentence",
                    category |-> "Clarity",
                    issue |-> <<"Long sentence", word_count>>,
                    original |-> sentences[k]] >>
           ELSE <<>>)
          \o long_sentence_pass(sentences, k + 1)

\* Wordy phrases: for each phrase, the first sentence that contains it
RECURSIVE wordy_pass(_,_)
wordy_pass(sentences, p) ==
  IF p > Len(WORDY_PHRASES) THEN <<>>
  ELSE LET phrase == WORDY_PHRASES[p][1]
           replacement == WORDY_PHRASES[p][2]
           hits == {k \in 1..Len(sentences) :
                      contains(lower(phrase), lower(sentences[k]))}
       IN (IF hits = {} THEN <<>>
           ELSE LET sentence == sentences[Min(hits)]
                IN << [type |-> "wordy",
                       category |-> "Conciseness",
                       issue |-> <<"Wordy", phrase, replacement>>,
                       original |-> sentence,
                       fallback |-> re_sub(phrase, replacement, sentence, FALSE)] >>)
          \o wordy_pass(sentences, p + 1)

\* the catalog words that t (lower case) contains and that are not in found
complex_hits(t, found) ==
  {w \in 1..Len(COMPLEX_WORDS) :
     /\ contains(COMPLEX_WORDS[w][1], t)
     /\ COMPLEX_WORDS[w][1] \notin found}

complex_issue(w, sentence) ==
  [type |-> "complex_words",
   category |-> "Style",
   issue |-> <<"Complex", COMPLEX_WORDS[w][1], COMPLEX_WORDS[w][2]>>,
   original |-> sentence,
   fallback |-> re_sub(COMPLEX_WORDS[w][1], COMPLEX_WORDS[w][2], sentence, TRUE)]

\* the pass without the break of the inner loop: every catalog word of the
\* sentence that is not in found_complex is flagged
RECURSIVE complex_words_pass_no_break(_,_,_)
complex_words_pass_no_break(sentences, k, found_complex) ==
  IF k > Len(sentences) THEN <<>>
  ELSE LET hits == complex_hits(lower(sentences[k]), found_complex)
           flag[w \in 0..Len(COMPLEX_WORDS)] ==
             IF w = 0 THEN <<>>
             ELSE flag[w-1] \o (IF w \in hits
                                THEN <<complex_issue(w, sentences[k])>> ELSE <<>>)
       IN flag[Len(COMPLEX_WORDS)]
          \o complex_words_pass_no_break(sentences, k + 1,
                found_complex \cup {COMPLEX_WORDS[w][1] : w \in hits})

\* the pass without found_complex: a word is flagged again in a later sentence
RECURSIVE complex_words_pass_no_found(_,_,_)
complex_words_pass_no_found(sentences, k, found_complex) ==
  IF k > Len(sentences) THEN <<>>
  ELSE LET hits == complex_hits(lower(sentences[k]), {})
       IN (IF hits = {} THEN <<>>
           ELSE <<complex_issue(Min(hits), sentences[k])>>)
          \o complex_words_pass_no_found(sentences, k + 1, found_complex)

\* Complex words: for each sentence, the first catalog word it contains
\* that is not in found_complex; then the inner loop breaks
RECURSIVE complex_words_pass(_,_,_)
complex_words_pass(sentences, k, found_complex) ==
  IF k > Len(sentences) THEN <<>>
  ELSE LET hits == complex_hits(lower(sentences[k]), found_complex)
       IN IF hits = {} THEN complex_words_pass(sentences, k + 1, found_complex)
          ELSE <<complex_issue(Min(hits), sentences[k])>>
               \o complex_words_pass(sentences, k + 1,
                     found_complex \cup {COMPLEX_WORDS[Min(hits)][1]})

\* [w for w in words if w in WEAK_WORDS]
weak_found(words) ==
  SelectSeq(words, LAMBDA w : \E x \in 1..Len(WEAK_WORDS) : WEAK_WORDS[x] = w)

\* the first sentence that contains a weak word as a substring
weak_issue(sentences) ==
  LET hits == {k \in 1..Len(sentences) :
                 \E x \in 1..Len(WEAK_WORDS) :
                    contains(WEAK_WORDS[x], lower(sentences[k]))}
  IN IF hits = {} THEN <<>>
     ELSE << [type |-> "weak_words",
              category |-> "Style",
              issue |-> <<"Contains filler words">>,
              original |-> sentences[Min(hits)]] >>

\* the pass with the threshold len(weak_found) >= 2
weak_words_pass_ge(sentences, words) ==
  IF Len(weak_found(words)) >= 2 THEN weak_issue(sentences) ELSE <<>>

\* Weak words
weak_words_pass(sentences, words) ==
  IF Len(weak_found(words)) > 2 THEN weak_issue(sentences) ELSE <<>>

hedging_issue(h, sentence) ==
  [type |-> "hedging",
   category |-> "Tone",
   issue |-> <<"Hedging", HEDGING_WORDS[h]>>,
   original |-> sentence]

\* the sentences (by position) that contain HEDGING_WORDS[h]
hedge_hits(sentences, h) ==
  {k \in 1..Len(sentences) :
     contains(lower(HEDGING_WORDS[h]), lower(sentences[k]))}

\* the pass without the break of the outer loop: one issue per hedge found
RECURSIVE hedging_pass_no_break(_,_)
hedging_pass_no_break(sentences, h) ==
  IF h > Len(HEDGING_WORDS) THEN <<>>
  ELSE LET hits == hedge_hits(sentences, h)
       IN (IF hits = {} THEN <<>>
           ELSE <<hedging_issue(h, sentences[Min(hits)])>>)
          \o hedging_pass_no_break(sentences, h + 1)

\* Hedging: for each hedge in list order, the first sentence that contains
\* it; the outer loop breaks as soon as the list holds a hedging issue
RECURSIVE hedging_pass(_,_)
hedging_pass(sentences, h) ==
  IF h > Len(HEDGING_WORDS) THEN <<>>
  ELSE LET hits == hedge_hits(sentences, h)
       IN IF hits = {} THEN hedging_pass(sentences, h + 1)
          ELSE <<hedging_issue(h, sentences[Min(hits)])>>

\* the list `issues` when the six passes are over
all_issues(t) ==
  LET sentences == get_sentences(t)
      words == get_words(t)
  IN passive_voice_pass(sentences, 1, <<>>)
     \o long_sentence_pass(sentences, 1)
     \o wordy_pass(sentences, 1)
     \o complex_words_pass(sentences, 1, {})
     \o weak_words_pass(sentences, words)
     \o hedging_pass(sentences, 1)

(***************************************************************************)
(* analyze_text: scores, statistics and the returned report                *)
(***************************************************************************)
\* len([i for i in issues if i['category'] == category])
category_count(all, category) ==
  Len(SelectSeq(all, LAMBDA i : i.category = category))

\* the score without the floor of 5
category_score_no_floor(n) == 10 - n * 2

\* max(5, 10 - n * 2)
category_score(n) == Max2(5, 10 - n * 2)

calculate_scores(all) ==
  LET clarity == category_score(category_count(all, "Clarity"))
      style == category_score(category_count(all, "Style"))
      conciseness == category_score(category_count(all, "Conciseness"))
      tone == category_score(category_count(all, "Tone"))
  IN [clarity |-> clarity, style |-> style,
      conciseness |-> conciseness, tone |-> tone,
      overall |-> py_round(clarity + style + conciseness + tone, 4)]

\* issues[:9]
first_issues_nine(all) == SubSeq(all, 1, IF Len(all) < 9 THEN Len(all) ELSE 9)

\* issues[:8]
first_issues(all) == SubSeq(all, 1, IF Len(all) < 8 THEN Len(all) ELSE 8)

\* words, sentences, and avg_length in tenths: round(words / sentences, 1)
\* (a tie of the tenths is an exact binary fraction below 20 sentences)
stats_of(sentences, words) ==
  [words |-> Len(words),
   sentences |-> Len(sentences),
   avg_length |-> py_round(10 * Len(words), Max2(Len(sentences), 1))]

report(t, all) ==
  [issues |-> first_issues(all),
   scores |-> calculate_scores(all),
   stats |-> stats_of(get_sentences(t), get_words(t))]

analyze_text(t) == report(t, all_issues(t))

(***************************************************************************)
(* The page: the text area and the "Analyze My Writing" button             *)
(***************************************************************************)
MaxFrags == 2

CakeText ==
    <<"T","h","e"," ","c","a","k","e"," ","w","a","s"," ","e","a","t","e","n",".">>

SucceedText ==
    <<"I","n"," ","o","r","d","e","r"," ","t","o"," ","s","u","c","c","e","e","d",","," ","y",
      "o","u"," ","m","u","s","t"," ","w","o","r","k"," ","h","a","r","d",".">>

SucceedFallback ==
    <<"T","o"," ","s","u","c","c","e","e","d",","," ","y","o","u"," ","m","u","s","t"," ","w",
      "o","r","k"," ","h","a","r","d",".">>

FragAdjusted ==
    <<"I","t"," ","w","a","s"," ","a","d","j","u","s","t","e","d","."," ","T","h","i","s"," ",
      "i","s"," ","l","i","k","e","d",".">>

FragFiller ==
    <<"I","t"," ","i","s"," ","r","e","a","l","l","y"," ","v","e","r","y",","," ","v","e","r",
      "y"," ","g","o","o","d",".">>

FragPerhaps ==
    <<"P","e","r","h","a","p","s"," ","i","t"," ","i","s"," ","j","u","s","t"," ","f","i","n",
      "e",".">>

FragMaybe ==
    <<"M","a","y","b","e"," ","w","e"," ","u","t","i","l","i","z","e"," ","a","n","d"," ","l",
      "e","v","e","r","a","g","e"," ","i","t",".">>

FragAble ==
    <<"I","t"," ","i","s"," ","a","b","l","e"," ","t","o"," ","m","a","k","e"," ","a"," ","d",
      "e","c","i","s","i","o","n"," ","i","n"," ","t","h","e"," ","n","e","a","r"," ","f","u",
      "t","u","r","e",".">>

FragSo ==
    <<"s","o"," ","s","o"," ","s","o"," ","s","o"," ","s","o"," ","s","o"," ","s","o"," ","s",
      "o"," ","s","o"," ","s","o"," ","s","o"," ","s","o"," ","s","o"," ","s","o"," ","s","o",
      " ","s","o"," ","s","o"," ","s","o"," ","s","o"," ","s","o"," ","s","o"," ","s","o"," ",
      "s","o"," ","s","o"," ","s","o"," ","s","o"," ","s","o">>

FragRich ==
    <<"M","a","y","b","e"," ","i","t"," ","w","a","s"," ","a","s","k","e","d"," ","t","o"," ",
      "u","t","i","l","i","z","e"," ","a"," ","l","a","r","g","e"," ","n","u","m","b","e","r",
      " ","o","f"," ","t","h","e"," ","m","a","j","o","r","i","t","y"," ","o","f"," ","t","h",
      "e","m"," ","a","t"," ","t","h","i","s"," ","p","o","i","n","t"," ","i","n"," ","t","i",
      "m","e",".">>
Space == <<" ">>

Vocabulary ==
  {CakeText, SucceedText, FragAdjusted, FragFiller, FragPerhaps,
   FragMaybe, FragAble, FragSo, FragRich}

NoResults == [issues |-> <<>>, scores |-> <<>>, stats |-> <<>>]

Init ==
  /\ text = <<>>
  /\ edits = 0
  /\ shown = "none"
  /\ results = NoResults
  /\ issues = <<>>

\* the user extends the text of the text area; the script reruns with the
\* button not pressed, so nothing of a previous analysis is rendered
EditText(frag) ==
  /\ edits < MaxFrags
  /\ edits' = edits + 1
  /\ text' = IF text = <<>> THEN frag ELSE text \o Space \o frag
  /\ shown' = "none"
  /\ results' = NoResults
  /\ issues' = <<>>

\* the button is pressed
ClickAnalyze ==
  /\ IF strip(text) = <<>>
     THEN /\ shown' = "warning"
          /\ UNCHANGED <<text, edits, results, issues>>
     ELSE /\ issues' = all_issues(text)
          /\ results' = report(text, issues')
          /\ shown' = "results"
          /\ UNCHANGED <<text, edits>>

Next ==
  \/ \E frag \in Vocabulary : EditText(frag)
  \/ ClickAnalyze

Spec == Init /\ [][Next]_vars

(***************************************************************************)
(* Properties                                                              *)
(***************************************************************************)
Analysed == shown = "results"

PassOrder ==
  <<"passive_voice", "long_sentence", "wordy", "complex_words",
    "weak_words", "hedging">>

PassRank(type) == CHOOSE r \in 1..Len(PassOrder) : PassOrder[r] = type

\* positions of the full list that hold an issue of the type
IssuesOfType(type) == {k \in 1..Len(issues) : issues[k].type = type}

\* number of issues of the full list in the category
CountCategory(category) ==
  Cardinality({k \in 1..Len(issues) : issues[k].category = category})

Floor5(n) == IF 10 - 2 * n < 5 THEN 5 ELSE 10 - 2 * n

ScoreSum ==
  results.scores.clarity + results.scores.style
    + results.scores.conciseness + results.scores.tone

\* number of sentences of the text equal to s
Occurrences(s) ==
  LET S == get_sentences(text)
  IN Cardinality({k \in 1..Len(S) : S[k] = s})

\* number of issues of the type whose original is s
IssuesOn(type, s) ==
  Cardinality({k \in IssuesOfType(type) : issues[k].original = s})

\* C1: the returned issues are at most 8, are exactly the first 8 (or all)
\* of the full list, and appear in the order of the six passes
C1_FirstEightInPassOrder ==
  Analysed =>
    /\ Len(results.issues) <= 8
    /\ Len(results.issues) = (IF Len(issues) < 8 THEN Len(issues) ELSE 8)
    /\ \A k \in 1..Len(results.issues) : results.issues[k] = issues[k]
    /\ \A a, b \in 1..Len(results.issues) :
         a < b => PassRank(results.issues[a].type) <= PassRank(results.issues[b].type)

C1_Witness == Analysed /\ Len(issues) > 8 /\ Len(results.issues) = 8

\* C2: each category score is max(5, 10 - 2n) for the n issues of the
\* category in the full list, so it lies in 5..10 and is 10 for n = 0
C2_CategoryScores ==
  Analysed =>
    /\ results.scores.clarity = Floor5(CountCategory("Clarity"))
    /\ results.scores.style = Floor5(CountCategory("Style"))
    /\ results.scores.conciseness = Floor5(CountCategory("Conciseness"))
    /\ results.scores.tone = Floor5(CountCategory("Tone"))
    /\ \A c \in {"clarity", "style", "conciseness", "tone"} :
         results.scores[c] \in 5..10

C2_Witness ==
  /\ Analysed
  /\ Len(issues) > 8
  /\ CountCategory("Conciseness") >= 3
  /\ results.scores.conciseness = 5
  /\ CountCategory("Tone") = 1
  /\ results.scores.tone = 8

\* C3: the overall score is an integer of 5..10, the nearest to the mean of
\* the four category scores, and the even one of the two when the mean lies
\* halfway between two integers
C3_OverallRoundedMean ==
  Analysed =>
    /\ results.scores.overall \in 5..10
    /\ 4 * results.scores.overall - ScoreSum \in -2..2
    /\ (4 * results.scores.overall - ScoreSum \in {-2, 2})
         => results.scores.overall % 2 = 0

C3_Witness == Analysed /\ ScoreSum = 34 /\ results.scores.overall = 8

\* C4: the full list holds exactly one weak_words issue when more than two
\* word tokens of the text are weak words, and none otherwise
C4_WeakWordsThreshold ==
  Analysed =>
    Cardinality(IssuesOfType("weak_words"))
      = (IF Len(weak_found(get_words(text))) > 2 THEN 1 ELSE 0)

C4_Witness ==
  /\ Analysed
  /\ Len(weak_found(get_words(text))) = 3
  /\ Cardinality(IssuesOfType("weak_words")) = 1

\* sentence s contains the hedging phrase h
HasHedge(h, s) == contains(lower(HEDGING_WORDS[h]), lower(s))

\* C5 as stated: at most one hedging issue; its original is the first
\* sentence that contains any hedging phrase, and it names the first phrase
\* in catalog order that this sentence contains
C5_FirstSentenceWithAnyHedge ==
  Analysed =>
    /\ Cardinality(IssuesOfType("hedging")) <= 1
    /\ \A k \in IssuesOfType("hedging") :
         LET S == get_sentences(text)
             any == {j \in 1..Len(S) :
                       \E h \in 1..Len(HEDGING_WORDS) : HasHedge(h, S[j])}
         IN /\ any # {}
            /\ issues[k].original = S[Min(any)]
            /\ issues[k].issue[2]
                 = HEDGING_WORDS[Min({h \in 1..Len(HEDGING_WORDS) :
                                        HasHedge(h, S[Min(any)])})]

\* C5 amended: at most one hedging issue; it names the first phrase in
\* catalog order that any sentence contains, and its original is the first
\* sentence in text order that contains that phrase
C5_FirstHedgeOfCatalog ==
  Analysed =>
    /\ Cardinality(IssuesOfType("hedging")) <= 1
    /\ \A k \in IssuesOfType("hedging") :
         LET S == get_sentences(text)
             hs == {h \in 1..Len(HEDGING_WORDS) :
                      \E j \in 1..Len(S) : HasHedge(h, S[j])}
         IN /\ hs # {}
            /\ issues[k].issue[2] = HEDGING_WORDS[Min(hs)]
            /\ issues[k].original
                 = S[Min({j \in 1..Len(S) : HasHedge(Min(hs), S[j])})]

\* a hedging issue whose sentence is not the first one that holds a hedge
C5_Witness ==
  /\ Analysed
  /\ \E k \in IssuesOfType("hedging") :
       LET S == get_sentences(text)
       IN \E j \in 1..Len(S) :
            /\ \E h \in 1..Len(HEDGING_WORDS) : HasHedge(h, S[j])
            /\ \E m \in (j+1)..Len(S) :
                 /\ issues[k].original = S[m]
                 /\ S[m] # S[j]

\* C6 as stated: "The cake was eaten." gets a passive_voice issue on that
\* sentence
C6_CakeIsPassive ==
  (Analysed /\ text = CakeText) =>
    \E k \in 1..Len(results.issues) :
      /\ results.issues[k].type = "passive_voice"
      /\ results.issues[k].original = CakeText

\* C6 amended: "The cake was eaten." gets no passive_voice issue (the word
\* after the auxiliary must end in "ed", and "eaten" does not)
C6_CakeIsNotFlagged ==
  (Analysed /\ text = CakeText) =>
    /\ IssuesOfType("passive_voice") = {}
    /\ \A k \in 1..Len(results.issues) : results.issues[k].type # "passive_voice"

C6_Witness ==
  /\ Analysed
  /\ text = CakeText
  /\ get_sentences(text) = <<CakeText>>
  /\ results.scores.clarity = 10

\* C7: "In order to succeed, you must work hard." gets a wordy issue whose
\* fallback is "To succeed, you must work hard."
C7_SucceedFallbackCapitalised ==
  (Analysed /\ text = SucceedText) =>
    \E k \in 1..Len(results.issues) :
      /\ results.issues[k].type = "wordy"
      /\ results.issues[k].fallback = SucceedFallback

\* C8 as stated: no pass emits more issues of its type on a sentence than
\* the sentence has occurrences in the text
C8_OneIssuePerTypePerSentence ==
  Analysed =>
    \A r \in 1..Len(PassOrder) :
      \A k \in 1..Len(issues) :
        IssuesOn(PassOrder[r], issues[k].original) <= Occurrences(issues[k].original)

\* C8 amended: every pass but the wordy one emits at most one issue of its
\* type per sentence occurrence; the wordy pass emits at most one issue per
\* catalog phrase, each on a sentence that contains the phrase
C8_OneIssuePerSentenceOrPhrase ==
  Analysed =>
    /\ \A r \in 1..Len(PassOrder) :
         PassOrder[r] # "wordy" =>
           \A k \in 1..Len(issues) :
             IssuesOn(PassOrder[r], issues[k].original)
               <= Occurrences(issues[k].original)
    /\ \A a, b \in IssuesOfType("wordy") :
         a # b => issues[a].issue[2] # issues[b].issue[2]
    /\ \A a \in IssuesOfType("wordy") :
         contains(issues[a].issue[2], lower(issues[a].original))

\* one sentence with several wordy issues, and another sentence holding two
\* complex words with its single complex_words issue
C8_Witness ==
  /\ Analysed
  /\ \E a, b \in IssuesOfType("wordy") :
       a # b /\ issues[a].original = issues[b].original
  /\ \E k \in IssuesOfType("complex_words") :
       /\ Cardinality(complex_hits(lower(issues[k].original), {})) >= 2
       /\ IssuesOn("complex_words", issues[k].original) = 1

\* the positions of the complex_words issues that name the catalog word w
ComplexIssuesFor(w) ==
  {k \in IssuesOfType("complex_words") : issues[k].issue[2] = COMPLEX_WORDS[w][1]}

\* C9 as stated: a catalog word that occurs in a sentence has exactly one
\* complex_words issue, on the first sentence that contains it; a word that
\* occurs in no sentence has none
C9_EveryComplexWordFlagged ==
  Analysed =>
    \A w \in 1..Len(COMPLEX_WORDS) :
      LET S == get_sentences(text)
          occ == {j \in 1..Len(S) : contains(COMPLEX_WORDS[w][1], lower(S[j]))}
      IN IF occ = {} THEN ComplexIssuesFor(w) = {}
         ELSE /\ Cardinality(ComplexIssuesFor(w)) = 1
              /\ \A k \in ComplexIssuesFor(w) : issues[k].original = S[Min(occ)]

\* C9 amended: a catalog word has at most one complex_words issue, on a
\* sentence that contains it, and none when no sentence contains it; a
\* sentence occurrence gets at most one complex_words issue, for the first
\* word in catalog order that it contains and that no earlier issue names;
\* a sentence without an issue contains only words that an issue names
C9_OneComplexWordPerSentence ==
  Analysed =>
    LET S == get_sentences(text)
    IN /\ \A w \in 1..Len(COMPLEX_WORDS) :
            /\ Cardinality(ComplexIssuesFor(w)) <= 1
            /\ \A k \in ComplexIssuesFor(w) :
                 /\ contains(COMPLEX_WORDS[w][1], lower(issues[k].original))
                 /\ \E j \in 1..Len(S) : S[j] = issues[k].original
                 /\ \A v \in 1..(w-1) :
                      contains(COMPLEX_WORDS[v][1], lower(issues[k].original))
                        => \E e \in ComplexIssuesFor(v) : e < k
       /\ \A k \in IssuesOfType("complex_words") :
            /\ IssuesOn("complex_words", issues[k].original)
                 <= Occurrences(issues[k].original)
            /\ \E w \in 1..Len(COMPLEX_WORDS) : k \in ComplexIssuesFor(w)
       /\ \A j \in 1..Len(S) :
            \/ IssuesOn("complex_words", S[j]) >= 1
            \/ \A w \in complex_hits(lower(S[j]), {}) : ComplexIssuesFor(w) # {}

\* a sentence that holds two complex words, of which only the first in
\* catalog order is flagged, the other one nowhere
C9_Witness ==
  /\ Analysed
  /\ \E k \in IssuesOfType("complex_words") :
       \E w \in complex_hits(lower(issues[k].original), {}) :
         /\ issues[k].issue[2] # COMPLEX_WORDS[w][1]
         /\ ComplexIssuesFor(w) = {}

\* sentence s holds a weak word as a word token
HasWeakToken(s) == weak_found(get_words(s)) # <<>>

\* C10: when the weak-words pass fires, the original of its issue is the
\* first sentence that holds a weak word as a word token
C10_WeakIssueOnFirstWeakToken ==
  Analysed =>
    \A k \in IssuesOfType("weak_words") :
      LET S == get_sentences(text)
          tok == {j \in 1..Len(S) : HasWeakToken(S[j])}
      IN tok # {} /\ issues[k].original = S[Min(tok)]

====
